---- MODULE Spec2Model ----
(***************************************************************************)
(* A model of the lexorank package.                                        *)
(*                                                                         *)
(*   lexorank.go        Posn, ParseJira / Posn.String, Ranks, majorRanks,   *)
(*                      minorRanks, mids, getChar, byteToOrder              *)
(*   unnamed/part_000    the string variant: Rank, Ranks, mids               *)
(*                                                                         *)
(* A Go string is a sequence of bytes; a byte is its value 0..255, so that *)
(* byte-wise comparison, the 8-bit arithmetic of mids and the alphabet     *)
(* tables are what they are in the program.                                *)
(***************************************************************************)
EXTENDS Integers, Sequences, FiniteSets, TLC

(***************************************************************************)
(* Bounds of the model.                                                    *)
(***************************************************************************)
\* longest major enumerated over InChars
MaxLen == 2
\* loop iterations explored per call under Spec and SpecStr
MaxIter == 6
\* loop iterations explored per call under SpecLoop
MaxLoopIter == 64

(***************************************************************************)
(* Bytes and strings.                                                      *)
(***************************************************************************)
\* '0' and 'z'
minChar == 48
maxChar == 122

\* ':' and '|'
Colon == 58
Bar == 124

Max(a, b) == IF a > b THEN a ELSE b

\* s[:k] of Go, for 0 <= k <= len(s)
Take(s, k) == SubSeq(s, 1, k)

\* c repeated k times
Repeat(c, k) == [j \in 1..k |-> c]

RECURSIVE StrLess(_, _)
\* Go's a < b on strings: byte-wise lexicographic order
StrLess(a, b) ==
    IF b = <<>> THEN FALSE
    ELSE IF a = <<>> THEN TRUE
    ELSE IF Head(a) # Head(b) THEN Head(a) < Head(b)
    ELSE StrLess(Tail(a), Tail(b))

\* order of two Positions by (bucket, major, minor)
PosnLess(p, q) ==
    \/ p.Bucket < q.Bucket
    \/ p.Bucket = q.Bucket /\ StrLess(p.Major, q.Major)
    \/ p.Bucket = q.Bucket /\ p.Major = q.Major /\ StrLess(p.Minor, q.Minor)

(***************************************************************************)
(* Alphabet codec.                                                         *)
(***************************************************************************)
\* "0123456789ABCDEFGHIJKLMNOPQRSTUVWXYZabcdefghijklmnopqrstuvwxyz"
orderToByte ==
    [k \in 1..62 |-> IF k <= 10 THEN 47 + k
                     ELSE IF k <= 36 THEN 54 + k
                     ELSE 60 + k]

\* orderToByte[o] of Go (0-based); the index is in range iff 0 <= o <= 61
OrderToByteAt(o) == orderToByte[o + 1]

InTable(o) == 0 <= o /\ o < Len(orderToByte)

\* _byteToOrder: byte arithmetic, every branch as written
RawByteToOrder(b) ==
    IF b >= 48 /\ b <= 57 THEN (b - 48) % 256
    ELSE IF b >= 65 /\ b <= 90 THEN (b - 65 + 10) % 256
    ELSE IF b >= 97 /\ b <= 122 THEN (b - 97 + 10 + 26) % 256
    ELSE IF b < 65 THEN 0
    ELSE 10 + 26 + 26 - 1

\* byteToOrder panics("bad value") when this holds
ByteToOrderPanics(b) == RawByteToOrder(b) < 0 \/ RawByteToOrder(b) > 62

byteToOrder(b) == RawByteToOrder(b)

MaxMultiRank == 10 + 26 + 26 - 1

\* getChar(s, i, defaultChar), i 0-based
getChar(s, i, defaultChar) == IF i >= Len(s) THEN defaultChar ELSE s[i + 1]

\* per of mids: the subtraction is on bytes (mod 256), the division on ints
MidsPer(cnt, prevB, nextB) ==
    ((byteToOrder(nextB) - byteToOrder(prevB)) % 256) \div (cnt + 1)

\* mids returns (nil, false)
MidsNoRoom(cnt, prevB, nextB) == MidsPer(cnt, prevB, nextB) < 1

\* the largest index mids takes into orderToByte (the indices grow with i)
MidsLastIndex(cnt, prevB, nextB) ==
    byteToOrder(prevB) + MidsPer(cnt, prevB, nextB) * cnt

\* mids panics: byteToOrder's check, or an index out of the table
MidsPanics(cnt, prevB, nextB) ==
    \/ ByteToOrderPanics(prevB)
    \/ ByteToOrderPanics(nextB)
    \/ /\ ~MidsNoRoom(cnt, prevB, nextB)
       /\ ~InTable(MidsLastIndex(cnt, prevB, nextB))

\* the bytes mids returns on success
MidsChars(cnt, prevB, nextB) ==
    [j \in 1..cnt |->
        OrderToByteAt(byteToOrder(prevB) + MidsPer(cnt, prevB, nextB) * j)]

\* const trailer = "UUUUUUUU"
trailer == Repeat(85, 8)

(***************************************************************************)
(* Position model and the inputs explored.                                 *)
(***************************************************************************)
\* Posn{Bucket, Major, Minor}
MkPosn(b, major, minor) == [Bucket |-> b, Major |-> major, Minor |-> minor]

\* the zero value Posn{}
ZeroPosn == MkPosn(0, <<>>, <<>>)

\* a *Posn argument: nil, or a pointer to a Posn
NilArg == [nil |-> TRUE, posn |-> ZeroPosn]
PtrTo(p) == [nil |-> FALSE, posn |-> p]

\* '0', '1', 'y', 'z': both ends of the alphabet and their neighbours
InChars == {48, 49, 121, 122}

RECURSIVE StringsOver(_, _)
\* the non-empty strings over chars of length at most k
StringsOver(chars, k) ==
    IF k = 0 THEN {}
    ELSE LET shorter == StringsOver(chars, k - 1)
         IN  {<<c>> : c \in chars} \cup shorter
               \cup {Append(s, c) : s \in shorter, c \in chars}

\* "a", "b", "az", "001", "005z", "006b", "0000000000", "zzzzzzzzzz"
ScenarioMajors ==
    { <<97>>, <<98>>, <<97, 122>>, <<48, 48, 49>>,
      <<48, 48, 53, 122>>, <<48, 48, 54, 98>>,
      Repeat(48, 10), Repeat(122, 10) }

Majors == StringsOver(InChars, MaxLen) \cup ScenarioMajors

Buckets == {0, 1}

\* batch sizes: the scenarios' 1 and 3, the largest for which mids can find
\* room (60), the largest accepted (61), the first rejected (62)
Ns == {1, 3, 60, 61, 62}

Args ==
    {NilArg} \cup {PtrTo(MkPosn(b, m, <<Colon>>)) : b \in Buckets, m \in Majors}

(***************************************************************************)
(* lexorank.go: Ranks, majorRanks, minorRanks.                              *)
(***************************************************************************)
VARIABLES
    pc,         \* "Ranks" | "majorRanks" | "minorRanks" | "return" | "panic"
    n,          \* the batch size asked for
    prevArg,    \* the caller's prev *Posn
    nextArg,    \* the caller's next *Posn
    prev,       \* majorRanks' copy of prev (its Major is rewritten)
    next,       \* majorRanks' copy of next
    rank,       \* the accumulated prefix
    i,          \* the index walked
    majorLen,   \* max(len(prev.Major), len(next.Major)) at entry
    out,        \* the returned []Posn (<<>> for nil)
    ok,         \* the returned bool
    panicked,   \* "" or the panic that ended the call
    iters,      \* iterations of majorRanks' loop begun
    cap         \* iterations explored (the model's bound)

mainVars == <<pc, n, prevArg, nextArg, prev, next, rank, i, majorLen, out, ok,
              panicked, iters, cap>>

\* unnamed/part_000: Rank and Ranks on strings
VARIABLES
    entry,      \* the function called: "Rank" | "Ranks" | "" (no call)
    spc,        \* "Ranks" | "loop" | "Ranks.return" | "return" | "panic" | ""
    sn,         \* Ranks' n
    sPrev,      \* the caller's prev
    sNext,      \* the caller's next
    srank,      \* Ranks' accumulated prefix
    si,         \* Ranks' index
    sout,       \* Ranks' returned []string
    sok,        \* Ranks' returned bool
    siters,     \* iterations of Ranks' loop begun
    rankStr,    \* Rank's returned string
    rankOk      \* Rank's returned bool

strVars == <<entry, spc, sn, sPrev, sNext, srank, si, sout, sok, siters,
             rankStr, rankOk>>

\* lexorank.go: Posn.String and ParseJira
VARIABLES
    apc,        \* "String" | "ParseJira" | "return" | ""
    posn,       \* the Posn formatted
    text,       \* the string String returned and ParseJira is given
    parsed,     \* ParseJira's returned Posn
    parsedOk    \* ParseJira's returned bool

adVars == <<apc, posn, text, parsed, parsedOk>>

vars == <<mainVars, strVars, adVars>>

\* no call of Ranks (lexorank.go) is made
MainIdle ==
    /\ pc = "" /\ n = 0 /\ prevArg = NilArg /\ nextArg = NilArg
    /\ prev = ZeroPosn /\ next = ZeroPosn /\ rank = <<>> /\ i = 0
    /\ majorLen = 0 /\ out = <<>> /\ ok = FALSE /\ panicked = ""
    /\ iters = 0 /\ cap = 0

\* no call of the string variant is made
StrIdle ==
    /\ entry = "" /\ spc = "" /\ sn = 0 /\ sPrev = <<>> /\ sNext = <<>>
    /\ srank = <<>> /\ si = 0 /\ sout = <<>> /\ sok = FALSE /\ siters = 0
    /\ rankStr = <<>> /\ rankOk = FALSE

\* no call of the adapter is made
AdIdle ==
    /\ apc = "" /\ posn = ZeroPosn /\ text = <<>> /\ parsed = ZeroPosn
    /\ parsedOk = FALSE

\* prev after Ranks' substitution of the sentinel (lines 79-88)
PrevOrSentinel(pa, na) ==
    IF pa.nil
    THEN MkPosn(IF ~na.nil THEN na.posn.Bucket ELSE 0, Repeat(48, 6), <<Colon>>)
    ELSE pa.posn

\* next after Ranks' substitution of the sentinel (lines 90-99): prev is
\* never nil by then, so next adopts the bucket of (the substituted) prev
NextOrSentinel(pa, na) ==
    IF na.nil
    THEN MkPosn(PrevOrSentinel(pa, na).Bucket, Repeat(122, 6), <<Colon>>)
    ELSE na.posn

InitWith(args, ns, c) ==
    /\ pc = "Ranks"
    /\ n \in ns
    /\ prevArg \in args
    /\ nextArg \in args
    /\ prev = ZeroPosn
    /\ next = ZeroPosn
    /\ rank = <<>>
    /\ i = 0
    /\ majorLen = 0
    /\ out = <<>>
    /\ ok = FALSE
    /\ panicked = ""
    /\ iters = 0
    /\ cap = c
    /\ StrIdle
    /\ AdIdle

Init == InitWith(Args, Ns, MaxIter)

\* an off-by-one form of the test of line 74
TooManyOffByOne(cnt) == cnt > MaxMultiRank + 1

\* the test of line 74 (and of line 44 of the string variant)
TooMany(cnt) == cnt > MaxMultiRank

\* Ranks up to the call of majorRanks or minorRanks (lines 73-107)
RanksEntry ==
    /\ UNCHANGED <<strVars, adVars>>
    /\ pc = "Ranks"
    /\ IF TooMany(n)
       THEN /\ pc' = "return"
            /\ out' = <<>>
            /\ ok' = FALSE
            /\ UNCHANGED <<prev, next, majorLen>>
       ELSE /\ prev' = PrevOrSentinel(prevArg, nextArg)
            /\ next' = NextOrSentinel(prevArg, nextArg)
            /\ IF prev'.Major # next'.Major
               THEN /\ pc' = "majorRanks"
                    /\ majorLen' = Max(Len(prev'.Major), Len(next'.Major))
               ELSE /\ pc' = "minorRanks"
                    /\ UNCHANGED majorLen
            /\ UNCHANGED <<out, ok>>
    /\ UNCHANGED <<n, prevArg, nextArg, rank, i, panicked, iters, cap>>

\* the two characters the loop body reads (lines 129-130)
prevChar == getChar(prev.Major, i, minChar)
nextChar == getChar(next.Major, i, maxChar)

InLoop == pc = "majorRanks" /\ iters < cap

\* lines 132-138
CommonPrefix ==
    /\ UNCHANGED <<strVars, adVars>>
    /\ InLoop
    /\ prevChar = nextChar
    /\ rank' = Append(rank, prevChar)
    /\ i' = i + 1
    /\ iters' = iters + 1
    /\ UNCHANGED <<pc, n, prevArg, nextArg, prev, next, majorLen, out, ok,
                   panicked, cap>>

\* line 140, when mids panics
MidsPanic ==
    /\ UNCHANGED <<strVars, adVars>>
    /\ InLoop
    /\ prevChar # nextChar
    /\ MidsPanics(n, prevChar, nextChar)
    /\ pc' = "panic"
    /\ panicked' = IF ByteToOrderPanics(prevChar) \/ ByteToOrderPanics(nextChar)
                   THEN "bad value" ELSE "index out of range"
    /\ iters' = iters + 1
    /\ UNCHANGED <<n, prevArg, nextArg, prev, next, rank, i, majorLen, out, ok,
                   cap>>

\* lines 152-155 (byte arithmetic)
spaceAfterPrev ==
    (MaxMultiRank - byteToOrder(getChar(prev.Major, i + 1, minChar))) % 256
spaceBeforeNext == byteToOrder(getChar(next.Major, i + 1, maxChar))

\* the fork rewrites next (line 160), else prev (line 164)
ForkTakesNext == spaceAfterPrev > spaceBeforeNext

\* the string sliced at the fork, and whether s[:i] is in range
ForkSliced == IF ForkTakesNext THEN next.Major ELSE prev.Major
ForkSliceOk == i <= Len(ForkSliced)

AtFork ==
    /\ InLoop
    /\ prevChar # nextChar
    /\ ~MidsPanics(n, prevChar, nextChar)
    /\ MidsNoRoom(n, prevChar, nextChar)

\* lines 141-170: no room at this index
Fork ==
    /\ UNCHANGED <<strVars, adVars>>
    /\ AtFork
    /\ iters' = iters + 1
    /\ IF ~ForkSliceOk
       THEN /\ pc' = "panic"
            /\ panicked' = "slice bounds out of range"
            /\ UNCHANGED <<prev, next, rank, i>>
       ELSE /\ IF ForkTakesNext
               THEN /\ next' = [next EXCEPT !.Major =
                                   Append(Take(next.Major, i), prevChar)]
                    /\ rank' = Append(rank, prevChar)
                    /\ UNCHANGED prev
               ELSE /\ prev' = [prev EXCEPT !.Major =
                                   Append(Take(prev.Major, i), nextChar)]
                    /\ rank' = Append(rank, nextChar)
                    /\ UNCHANGED next
            /\ i' = i + 1
            /\ UNCHANGED <<pc, panicked>>
    /\ UNCHANGED <<n, prevArg, nextArg, majorLen, out, ok, cap>>

AtRoom ==
    /\ InLoop
    /\ prevChar # nextChar
    /\ ~MidsPanics(n, prevChar, nextChar)
    /\ ~MidsNoRoom(n, prevChar, nextChar)

\* lines 172-174: majorRanks returns (nil, false) and Ranks goes on to
\* minorRanks (lines 103-107)
PrefixFull ==
    /\ UNCHANGED <<strVars, adVars>>
    /\ AtRoom
    /\ Len(rank) = majorLen
    /\ pc' = "minorRanks"
    /\ iters' = iters + 1
    /\ UNCHANGED <<n, prevArg, nextArg, prev, next, rank, i, majorLen, out, ok,
                   panicked, cap>>

\* a trailer one symbol too long
TrailerLenOffByOne == majorLen - Len(rank)

\* the length of the trailer slice taken at line 179
TrailerLen == majorLen - 1 - Len(rank)
TrailerSliceOk == 0 <= TrailerLen /\ TrailerLen <= Len(trailer)

\* one emitted Posn (lines 182-186)
EmitPosn(mid) ==
    MkPosn(prev.Bucket, Append(rank, mid) \o Take(trailer, TrailerLen), <<Colon>>)

AtEmit == AtRoom /\ Len(rank) # majorLen

\* lines 176-188: success, returned through Ranks (lines 103-105)
Emit ==
    /\ UNCHANGED <<strVars, adVars>>
    /\ AtEmit
    /\ iters' = iters + 1
    /\ IF ~TrailerSliceOk
       THEN /\ pc' = "panic"
            /\ panicked' = "slice bounds out of range"
            /\ UNCHANGED <<out, ok>>
       ELSE /\ out' = [j \in 1..n |-> EmitPosn(MidsChars(n, prevChar, nextChar)[j])]
            /\ ok' = TRUE
            /\ pc' = "return"
            /\ UNCHANGED panicked
    /\ UNCHANGED <<n, prevArg, nextArg, prev, next, rank, i, majorLen, cap>>

\* lines 110-112
minorRanks ==
    /\ UNCHANGED <<strVars, adVars>>
    /\ pc = "minorRanks"
    /\ pc' = "panic"
    /\ panicked' = "TODO"
    /\ UNCHANGED <<n, prevArg, nextArg, prev, next, rank, i, majorLen, out, ok,
                   iters, cap>>

Next ==
    \/ RanksEntry
    \/ CommonPrefix
    \/ MidsPanic
    \/ Fork
    \/ PrefixFull
    \/ Emit
    \/ minorRanks

Spec == Init /\ [][Next]_vars

\* bounds over '0' and 'z' only, for the runs that follow the loop far
LoopArgs ==
    {NilArg} \cup {PtrTo(MkPosn(0, m, <<Colon>>)) : m \in StringsOver({48, 122}, 2)}

LoopNs == {1, 60, 61, 62}

InitLoop == InitWith(LoopArgs, LoopNs, MaxLoopIter)

SpecLoop == InitLoop /\ [][Next]_vars

(***************************************************************************)
(* unnamed/part_000: the string variant.                                    *)
(***************************************************************************)
\* prev and next after Ranks' defaults (lines 49-54)
sPrevEff == IF sPrev = <<>> THEN <<minChar>> ELSE sPrev
sNextEff == IF sNext = <<>> THEN <<maxChar>> ELSE sNext

\* the strings given: "" (no bound) or a major
StrArgs == {<<>>} \cup Majors

InitStr ==
    /\ entry \in {"Rank", "Ranks"}
    /\ spc = "Ranks"
    /\ sn \in (IF entry = "Rank" THEN {1} ELSE Ns)
    /\ sPrev \in StrArgs
    /\ sNext \in StrArgs
    /\ srank = <<>>
    /\ si = 0
    /\ sout = <<>>
    /\ sok = FALSE
    /\ siters = 0
    /\ rankStr = <<>>
    /\ rankOk = FALSE
    /\ MainIdle
    /\ AdIdle

\* Ranks up to its loop (lines 43-57); Rank calls it with n = 1 (line 31)
StrRanksEntry ==
    /\ UNCHANGED <<mainVars, adVars>>
    /\ spc = "Ranks"
    /\ IF TooMany(sn)
       THEN /\ spc' = "Ranks.return"
            /\ sout' = <<>>
            /\ sok' = FALSE
       ELSE /\ spc' = "loop"
            /\ UNCHANGED <<sout, sok>>
    /\ UNCHANGED <<entry, sn, sPrev, sNext, srank, si, siters, rankStr, rankOk>>

\* lines 60-61
sPrevChar == getChar(sPrevEff, si, minChar)
sNextChar == getChar(sNextEff, si, maxChar)

StrInLoop == spc = "loop" /\ siters < MaxIter

\* lines 63-67
StrCommonPrefix ==
    /\ UNCHANGED <<mainVars, adVars>>
    /\ StrInLoop
    /\ sPrevChar = sNextChar
    /\ srank' = Append(srank, sPrevChar)
    /\ si' = si + 1
    /\ siters' = siters + 1
    /\ UNCHANGED <<entry, spc, sn, sPrev, sNext, sout, sok, rankStr, rankOk>>

\* Ranks is about to call mids (line 69)
StrAtMids == StrInLoop /\ sPrevChar # sNextChar

\* line 69, when mids panics at line 93
StrMidsPanic ==
    /\ UNCHANGED <<mainVars, adVars>>
    /\ StrAtMids
    /\ ~MidsNoRoom(sn, sPrevChar, sNextChar)
    /\ ~InTable(MidsLastIndex(sn, sPrevChar, sNextChar))
    /\ spc' = "panic"
    /\ siters' = siters + 1
    /\ UNCHANGED <<entry, sn, sPrev, sNext, srank, si, sout, sok, rankStr, rankOk>>

\* lines 70-74: no room, go on with prev's character
StrNoRoom ==
    /\ UNCHANGED <<mainVars, adVars>>
    /\ StrAtMids
    /\ MidsNoRoom(sn, sPrevChar, sNextChar)
    /\ srank' = Append(srank, sPrevChar)
    /\ si' = si + 1
    /\ siters' = siters + 1
    /\ UNCHANGED <<entry, spc, sn, sPrev, sNext, sout, sok, rankStr, rankOk>>

\* lines 76-80
StrEmit ==
    /\ UNCHANGED <<mainVars, adVars>>
    /\ StrAtMids
    /\ ~MidsNoRoom(sn, sPrevChar, sNextChar)
    /\ InTable(MidsLastIndex(sn, sPrevChar, sNextChar))
    /\ sout' = [j \in 1..sn |-> Append(srank, MidsChars(sn, sPrevChar, sNextChar)[j])]
    /\ sok' = TRUE
    /\ spc' = "Ranks.return"
    /\ siters' = siters + 1
    /\ UNCHANGED <<entry, sn, sPrev, sNext, srank, si, rankStr, rankOk>>

\* Rank after its call of Ranks (lines 32-35)
RankReturn ==
    /\ UNCHANGED <<mainVars, adVars>>
    /\ entry = "Rank"
    /\ spc = "Ranks.return"
    /\ IF ~sok
       THEN rankStr' = sPrev /\ rankOk' = FALSE
       ELSE rankStr' = sout[1] /\ rankOk' = TRUE
    /\ spc' = "return"
    /\ UNCHANGED <<entry, sn, sPrev, sNext, srank, si, sout, sok, siters>>

NextStr ==
    \/ StrRanksEntry
    \/ StrCommonPrefix
    \/ StrMidsPanic
    \/ StrNoRoom
    \/ StrEmit
    \/ RankReturn

SpecStr == InitStr /\ [][NextStr]_vars

(***************************************************************************)
(* lexorank.go: Posn.String and ParseJira.                                  *)
(***************************************************************************)
RECURSIVE FormatDec(_)
\* fmt's %d of a byte: its decimal digits
FormatDec(b) ==
    IF b < 10 THEN <<48 + b>> ELSE Append(FormatDec(b \div 10), 48 + (b % 10))

\* Posn.String: Sprintf("%d|%s%s", Bucket, Major, Minor)
String(p) == FormatDec(p.Bucket) \o <<Bar>> \o p.Major \o p.Minor

\* the class [0-9a-z] of jiraRank
InClass(b) == (b >= 48 /\ b <= 57) \/ (b >= 97 /\ b <= 122)

RECURSIVE ClassRun(_)
\* the length of the longest prefix of s within [0-9a-z]
ClassRun(s) ==
    IF s = <<>> \/ ~InClass(Head(s)) THEN 0 ELSE 1 + ClassRun(Tail(s))

\* s from its 0-based index k on: s[k:]
Drop(s, k) == SubSeq(s, k + 1, Len(s))

\* the submatches of ^([012])\|([0-9a-z]+)(:[0-9a-z]*)?$ on t: m[2] is the
\* longest run of the class after the bar (':' is not in the class, so no
\* shorter run can match), m[3] what is left, up to the end of the text
JiraMajor(t) == Take(Drop(t, 2), ClassRun(Drop(t, 2)))
JiraMinor(t) == Drop(t, 2 + ClassRun(Drop(t, 2)))

\* jiraRank.FindStringSubmatch(t) # nil
JiraMatches(t) ==
    /\ Len(t) >= 3
    /\ t[1] \in {48, 49, 50}
    /\ t[2] = Bar
    /\ JiraMajor(t) # <<>>
    /\ \/ JiraMinor(t) = <<>>
       \/ /\ Head(JiraMinor(t)) = Colon
          /\ ClassRun(Tail(JiraMinor(t))) = Len(Tail(JiraMinor(t)))

\* a ParseJira that drops the separator from the minor
ParseJiraPosnNoColon(t) ==
    MkPosn((t[1] - 48) % 256, JiraMajor(t),
           IF JiraMinor(t) = <<>> THEN <<>> ELSE Tail(JiraMinor(t)))

\* ParseJira's Posn on a match (lines 61-65): Bucket is m[1][0] - '0'
ParseJiraPosn(t) == MkPosn((t[1] - 48) % 256, JiraMajor(t), JiraMinor(t))

\* '0', 'U', 'a', 'z': a digit, an upper-case and two lower-case symbols
AdChars == {48, 85, 97, 122}

\* minors of the grammar: none, or ':' and symbols
AdMinors == {<<>>, <<Colon>>} \cup {<<Colon>> \o m : m \in StringsOver(AdChars, MaxLen)}

\* the Positions of the grammar that are formatted and parsed back
AdPosns ==
    {MkPosn(b, m, mi) : b \in {0, 1, 2}, m \in StringsOver(AdChars, MaxLen),
                        mi \in AdMinors}

InitAd ==
    /\ apc = "String"
    /\ posn \in AdPosns
    /\ text = <<>>
    /\ parsed = ZeroPosn
    /\ parsedOk = FALSE
    /\ MainIdle
    /\ StrIdle

\* p.String() (lines 52-54)
CallString ==
    /\ UNCHANGED <<mainVars, strVars>>
    /\ apc = "String"
    /\ text' = String(posn)
    /\ apc' = "ParseJira"
    /\ UNCHANGED <<posn, parsed, parsedOk>>

\* ParseJira(text) (lines 56-66)
CallParseJira ==
    /\ UNCHANGED <<mainVars, strVars>>
    /\ apc = "ParseJira"
    /\ IF JiraMatches(text)
       THEN parsed' = ParseJiraPosn(text) /\ parsedOk' = TRUE
       ELSE parsed' = ZeroPosn /\ parsedOk' = FALSE
    /\ apc' = "return"
    /\ UNCHANGED <<posn, text>>

NextAd ==
    \/ CallString
    \/ CallParseJira

SpecAd == InitAd /\ [][NextAd]_vars

(***************************************************************************)
(* The claims.                                                             *)
(***************************************************************************)
\* the bounds of the call, sentinels substituted for absent ones
Lower == PrevOrSentinel(prevArg, nextArg)
Upper == NextOrSentinel(prevArg, nextArg)

\* Ranks (lexorank.go) returned ok = true
Succeeded == pc = "return" /\ ok

\* C1: whenever Ranks returns ok = true for bounds lower < upper and
\* 1 <= N <= 61, the N Positions returned are strictly increasing and each
\* lies strictly between lower and upper in (bucket, major, minor) byte order.
C1_ResultsOrderedBetweenBounds ==
    (Succeeded /\ n \in 1..61 /\ PosnLess(Lower, Upper)) =>
        /\ Len(out) = n
        /\ \A j \in 1..Len(out) :
              /\ PosnLess(Lower, out[j])
              /\ PosnLess(out[j], Upper)
              /\ j < Len(out) => PosnLess(out[j], out[j + 1])

\* equal-length majors that differ only in the last symbol, by one ordinal
Adjacent(a, b) ==
    /\ Len(a) = Len(b)
    /\ Len(a) >= 1
    /\ Take(a, Len(a) - 1) = Take(b, Len(b) - 1)
    /\ byteToOrder(b[Len(b)]) = byteToOrder(a[Len(a)]) + 1

BothGiven == ~prevArg.nil /\ ~nextArg.nil

\* C2: with both bounds given, equal-length majors differing only in the
\* last symbol by adjacent symbols, and N = 1, Ranks does not abort: it
\* returns (nil, false).
C2_NoRoomIsRecoverable ==
    (BothGiven /\ n = 1 /\ Adjacent(Lower.Major, Upper.Major)) =>
        /\ pc # "panic"
        /\ pc = "return" => (~ok /\ out = <<>>)

\* C3: for bounds with differing majors and 1 <= N <= 61, majorRanks' loop
\* runs at most max(len(lowerMajor), len(upperMajor)) + N iterations.
C3_LoopBounded ==
    (n \in 1..61 /\ Lower.Major # Upper.Major) =>
        iters <= Max(Len(Lower.Major), Len(Upper.Major)) + n

\* every major returned is the prefix, one symbol, then only the filler 'U'
PaddedWithFiller ==
    \A j \in 1..Len(out) :
        \A k \in (Len(rank) + 2)..Len(out[j].Major) : out[j].Major[k] = 85

\* C5 (as claimed): on success every returned major has length exactly
\* max(len(lowerMajor), len(upperMajor)) - 1.
C5_PaddedToMaxLenMinusOne ==
    Succeeded =>
        \A j \in 1..Len(out) :
            Len(out[j].Major) = Max(Len(Lower.Major), Len(Upper.Major)) - 1

\* C5 (amended): on success Ranks returns N majors, each the prefix and one
\* symbol right-padded with the filler to length exactly
\* max(len(lowerMajor), len(upperMajor)), so that all have equal length.
C5_PaddedToMaxLen ==
    Succeeded =>
        /\ Len(out) = n
        /\ PaddedWithFiller
        /\ \A j \in 1..Len(out) :
              Len(out[j].Major) = Max(Len(Lower.Major), Len(Upper.Major))
        /\ \A j, k \in 1..Len(out) : Len(out[j].Major) = Len(out[k].Major)

\* a successful batch of three whose majors carry filler
C5_Witness ==
    /\ Succeeded
    /\ n = 3
    /\ Len(out) = 3
    /\ Len(out[1].Major) > Len(rank) + 1

\* C6: for N > 61 Ranks returns (nil, false) at once: no Position, no
\* sentinel substituted, no loop iteration, no panic.
C6_BatchTooLarge ==
    n > 61 =>
        \/ pc = "Ranks"
        \/ /\ pc = "return"
           /\ ~ok
           /\ out = <<>>
           /\ iters = 0
           /\ panicked = ""
           /\ prev = ZeroPosn
           /\ next = ZeroPosn
           /\ rank = <<>>

\* Ranks(62, ...) has returned, for two given bounds with room between them
C6_Witness ==
    /\ pc = "return"
    /\ n = 62
    /\ BothGiven
    /\ Lower.Major = <<48>>
    /\ Upper.Major = <<122>>

RECURSIVE FirstDiff(_, _, _)
\* the first 0-based index from k on where the boundary-padded majors differ
FirstDiff(a, b, k) ==
    IF getChar(a, k, minChar) # getChar(b, k, maxChar) THEN k
    ELSE FirstDiff(a, b, k + 1)

C8Index == FirstDiff(Lower.Major, Upper.Major, 0)
C8PrevOrder == byteToOrder(getChar(Lower.Major, C8Index, minChar))
C8NextOrder == byteToOrder(getChar(Upper.Major, C8Index, maxChar))
C8Spacing == (C8NextOrder - C8PrevOrder) \div (n + 1)
C8Prefix == [k \in 1..C8Index |-> getChar(Lower.Major, k - 1, minChar)]

\* C8: for bounds lower < upper with differing majors and 1 <= N <= 61,
\* when the boundary-padded majors first differ at an index where
\* spacing = (order(nextChar) - order(prevChar)) div (N+1) >= 1, Ranks
\* succeeds and its j-th major is the shared prefix, the symbol of ordinal
\* order(prevChar) + spacing*j, and then only filler.
C8_EvenlySpacedAtFirstDifference ==
    (n \in 1..61 /\ PosnLess(Lower, Upper) /\ Lower.Major # Upper.Major
        /\ C8Spacing >= 1) =>
        /\ pc \notin {"panic", "minorRanks"}
        /\ pc = "return" =>
              /\ ok
              /\ Len(out) = n
              /\ \A j \in 1..Len(out) :
                    /\ Len(out[j].Major) > C8Index
                    /\ Take(out[j].Major, C8Index) = C8Prefix
                    /\ out[j].Major[C8Index + 1] =
                          OrderToByteAt(C8PrevOrder + C8Spacing * j)
                    /\ \A k \in (C8Index + 2)..Len(out[j].Major) :
                          out[j].Major[k] = 85

\* C9: for bounds lower < upper and 1 <= N <= 61, the slice taken at the
\* no-room step and the slice of the trailer taken on success are in range.
C9_SlicesInRange ==
    (n \in 1..61 /\ PosnLess(Lower, Upper)) =>
        /\ AtFork => ForkSliceOk
        /\ AtEmit => TrailerSliceOk
        /\ panicked # "slice bounds out of range"

(***************************************************************************)
(* The claims about the string variant.                                    *)
(***************************************************************************)
\* C7: Rank(prev, next), for non-empty prev and next with prev not above
\* next, returns (prev, false) when prev and next are the same string or
\* adjacent, and returns ok = true only with a string strictly between prev
\* and next.
C7_RankRefusesSameOrAdjacent ==
    (entry = "Rank" /\ spc = "return" /\ sPrev # <<>> /\ sNext # <<>>
        /\ ~StrLess(sNext, sPrev)) =>
        /\ (sPrev = sNext \/ Adjacent(sPrev, sNext))
              => (~rankOk /\ rankStr = sPrev)
        /\ rankOk => (StrLess(sPrev, rankStr) /\ StrLess(rankStr, sNext))

\* C10: for prev < next and 1 <= N <= 61, at each call of mids made by
\* Ranks order(prevChar) <= order(nextChar), and every index mids takes
\* into orderToByte is at most 61.
C10_MidsNeverWraps ==
    (sn \in 1..61 /\ StrLess(sPrevEff, sNextEff) /\ StrAtMids) =>
        /\ byteToOrder(sPrevChar) <= byteToOrder(sNextChar)
        /\ ~MidsNoRoom(sn, sPrevChar, sNextChar)
              => MidsLastIndex(sn, sPrevChar, sNextChar) <= 61

(***************************************************************************)
(* The claims about the adapter.                                           *)
(***************************************************************************)
\* a digit or a lower-case letter
Base36Byte(b) == b \in 48..57 \cup 97..122

\* a Position whose major and minor use digits and lower-case letters only
Base36Posn(p) ==
    /\ \A k \in 1..Len(p.Major) : Base36Byte(p.Major[k])
    /\ \A k \in 2..Len(p.Minor) : Base36Byte(p.Minor[k])

\* C4 (as claimed): ParseJira(p.String()) = (p, true) for every Position of
\* the grammar over the 62-symbol alphabet.
C4_RoundTrip ==
    apc = "return" => (parsedOk /\ parsed = posn)

\* C4 (amended): ParseJira(p.String()) = (p, true) for every Position with
\* bucket 0, 1 or 2, a non-empty major over 0-9 and a-z, and a minor that is
\* empty or ':' followed by symbols of 0-9 and a-z.
C4_RoundTripBase36 ==
    (apc = "return" /\ Base36Posn(posn)) => (parsedOk /\ parsed = posn)

\* a Position with a two-symbol major and a minor was formatted and parsed back
C4_Witness ==
    /\ apc = "return"
    /\ Base36Posn(posn)
    /\ posn.Bucket = 2
    /\ Len(posn.Major) = 2
    /\ Len(posn.Minor) >= 2
    /\ parsedOk

====
